---------------------------- MODULE Spec2Model ----------------------------
(***************************************************************************)
(* A model of pdf2markdown.py: the table formatter, the layout segmenter,  *)
(* the content extractor, the image/OCR processor, the markdown assembler  *)
(* and the two drivers (AdvancedPDFMarkdownConverter.convert and main).    *)
(*                                                                         *)
(* Python strings are modelled as sequences of tokens, so that string      *)
(* concatenation is \o and ''.join is a flattening.  A Python value that   *)
(* may be None is modelled as a sequence of length at most one.            *)
(***************************************************************************)
EXTENDS Integers, Sequences, FiniteSets, TLC

VARIABLES
    pc,               \* position of the running operation
    chars,            \* _analyze_layout: the glyph records of the page
    text_blocks,      \* _analyze_layout: layout_elements['text_blocks']
    table,            \* _convert_table_to_markdown: the grid
    md_table,         \* _convert_table_to_markdown: the outcome
    pdf,              \* extract_content: the document behind pdf_path
    content,          \* the content dict (text, images, image_texts)
    images,           \* process_images: the image-location list it was given
    ocr_env,          \* process_images: what rasterizer and OCR do
    raster_calls,     \* every (first_page, last_page) given to the rasterizer
    used_bitmaps,     \* per location reached: the bitmap its crop came from
    image_texts,      \* process_images: the outcome
    markdown_content, \* convert_to_markdown: the returned string
    argv,             \* main: the command line and the file system it sees
    output_file,      \* the output file (absent, or its contents)
    exit_code,        \* main: the code given to sys.exit, if any
    stages            \* the stages run so far, in order

vars == << pc, chars, text_blocks, table, md_table, pdf, content, images,
           ocr_env, raster_calls, used_bitmaps, image_texts,
           markdown_content, argv, output_file, exit_code, stages >>

---------------------------------------------------------------------------
(* Bounds of the model *)

MaxGlyphs == 5
MaxRows == 2
MaxCols == 2
MaxPages == 3
MaxLocations == 3
MaxTexts == 2
PipelinePages == 2

---------------------------------------------------------------------------
(* Python values *)

None == << >>
Some(v) == << v >>

RECURSIVE Flatten(_)
\* ''.join(list of strings)
Flatten(ss) ==
    IF ss = << >> THEN << >> ELSE Head(ss) \o Flatten(Tail(ss))

Range(s) == { s[i] : i \in DOMAIN s }

SeqsUpTo(S, n) == UNION { [1..k -> S] : k \in 0..n }

Unused == "unused"

---------------------------------------------------------------------------
(* Layout segmenter: _analyze_layout, the grouping of characters *)

\* a glyph record: its text, and its 'size' key (None when the key is absent)
Glyphs == [ text : { <<"a">>, <<"b">> }, size : { None, Some(10), Some(12) } ]

TextBlock(current_text, current_size) ==
    [ text |-> Flatten(current_text), size |-> current_size ]

\* the flush inside the loop: "if current_text: append block"
FlushBlock(blocks, current_text, current_size) ==
    IF current_text # << >>
    THEN Append(blocks, TextBlock(current_text, current_size))
    ELSE blocks

\* the test as a guard against the initial None would write it: the first
\* glyph no longer opens a run of its own size
SizeChangesMutant(char, current_size) ==
    char.size # None /\ current_size # None /\ char.size # current_size

\* "if 'size' in char and char['size'] != current_size"
SizeChanges(char, current_size) ==
    char.size # None /\ char.size # current_size

RECURSIVE GroupChars(_, _, _, _, _)
\* the for loop over chars and the final flush
GroupChars(cs, i, current_size, current_text, blocks) ==
    IF i > Len(cs)
    THEN FlushBlock(blocks, current_text, current_size)
    ELSE IF SizeChanges(cs[i], current_size)
         THEN GroupChars(cs, i + 1, cs[i].size, << cs[i].text >>,
                         FlushBlock(blocks, current_text, current_size))
         ELSE GroupChars(cs, i + 1, current_size,
                         Append(current_text, cs[i].text), blocks)

AnalyzeLayout(cs) == GroupChars(cs, 1, None, << >>, << >>)

---------------------------------------------------------------------------
(* Table formatter: _convert_table_to_markdown *)

\* a cell: a string, or a value that is not a string (None, a number)
StrCell(s) == [ kind |-> "str", repr |-> s ]
Cells == { StrCell("a"), StrCell("b"),
           [ kind |-> "none", repr |-> "None" ],
           [ kind |-> "int", repr |-> "30" ] }

\* str(cell)
Str(cell) == cell.repr

RECURSIVE JoinWith(_, _)
\* sep.join(list of strings), the strings being single tokens
JoinWith(sep, ss) ==
    IF ss = << >> THEN << >>
    ELSE IF Len(ss) = 1 THEN << ss[1] >>
    ELSE << ss[1], sep >> \o JoinWith(sep, Tail(ss))

\* "| " + " | ".join(strings) + " |\n"
PipeLine(ss) == << "| " >> \o JoinWith(" | ", ss) \o << " |\n" >>

Returned(v) == [ raised |-> FALSE, value |-> v ]
Raised(e) == [ raised |-> TRUE, value |-> << e >> ]

RECURSIVE DataRows(_)
DataRows(rows) ==
    IF rows = << >> THEN << >>
    ELSE PipeLine([ j \in DOMAIN Head(rows) |-> Str(Head(rows)[j]) ])
         \o DataRows(Tail(rows))

\* str.join raises TypeError on an item that is not a str
JoinRaises(cells) == \E j \in DOMAIN cells : cells[j].kind # "str"

ConvertTableToMarkdown(t) ==
    IF t = << >> THEN Returned(<< >>)
    ELSE LET headers == t[1] IN
         IF JoinRaises(headers) THEN Raised("TypeError")
         ELSE Returned(
                PipeLine([ j \in DOMAIN headers |-> headers[j].repr ])
                \o PipeLine([ j \in DOMAIN headers |-> "---" ])
                \o DataRows(Tail(t)))

---------------------------------------------------------------------------
(* Markdown assembler: convert_to_markdown (the later definition, which   *)
(* replaces the earlier one of the same name in the class)                *)

BlankLine == "\n\n"
ImageHeader == "## Extracted Image Texts\n\n"

RECURSIVE AppendEach(_, _)
\* for s in strings: markdown_content += s + "\n\n"
AppendEach(markdown, strings) ==
    IF strings = << >> THEN markdown
    ELSE AppendEach(markdown \o Head(strings) \o << BlankLine >>,
                    Tail(strings))

\* the test with the truthiness of the list forgotten: key present
HasImageTextsMutant(c) == c.image_texts # None

\* "if content.get('image_texts')": the key is there and the list not empty
HasImageTexts(c) == c.image_texts # None /\ c.image_texts[1] # << >>

ConvertToMarkdown(c) ==
    LET with_text == AppendEach(<< >>, c.text) IN
    IF HasImageTexts(c)
    THEN AppendEach(with_text \o << ImageHeader >>, c.image_texts[1])
    ELSE with_text

---------------------------------------------------------------------------
(* Content extractor: extract_content *)

Whitespace == { " ", "\n" }

RECURSIVE LStrip(_)
LStrip(s) ==
    IF s # << >> /\ Head(s) \in Whitespace THEN LStrip(Tail(s)) ELSE s

RECURSIVE RStrip(_)
RStrip(s) ==
    IF s # << >> /\ s[Len(s)] \in Whitespace
    THEN RStrip(SubSeq(s, 1, Len(s) - 1)) ELSE s

\* str.strip()
Strip(s) == RStrip(LStrip(s))

\* "if page_text and page_text.strip()": page_text is None or a string
HasText(page_text) ==
    page_text # None /\ page_text[1] # << >> /\ Strip(page_text[1]) # << >>

\* Rect(img['bbox']) indexes bbox[0..3]: a shorter box raises IndexError
RectRaises(img) == img = "malformed"

ImageLocation(page_num, img) == [ page |-> page_num, bbox |-> "Rect" ]

RECURSIVE IdentifyImages(_, _, _)
\* the loop over page.images; raised is TRUE when Rect() stopped it
IdentifyImages(imgs, page_num, found) ==
    IF imgs = << >> THEN [ raised |-> FALSE, images |-> found ]
    ELSE IF Head(imgs) = "absent"
         THEN IdentifyImages(Tail(imgs), page_num, found)
         ELSE IF RectRaises(Head(imgs))
              THEN [ raised |-> TRUE, images |-> found ]
              ELSE IdentifyImages(Tail(imgs), page_num,
                       Append(found, ImageLocation(page_num, Head(imgs))))

\* the body of the per-page try block, to its end or to the first exception
ProcessPage(page, page_num, c) ==
    IF page.extract_text.raised
    THEN [ raised |-> TRUE, content |-> c ]
    ELSE LET page_text == page.extract_text.value
             with_text == IF HasText(page_text)
                          THEN Append(c.text, page_text[1])
                          ELSE c.text
             ident == IdentifyImages(page.images, page_num, c.images)
         IN  [ raised |-> ident.raised,
               content |-> [ c EXCEPT !.text = with_text,
                                      !.images = ident.images ] ]

\* the handler with break in the place of continue
PageErrorActionMutant == "break"

\* "except Exception as e: log; continue"
PageErrorAction == "continue"

RECURSIVE ExtractPages(_, _, _)
\* "for page_num, page in enumerate(pdf.pages, 1)"
ExtractPages(pages, page_num, c) ==
    IF page_num > Len(pages) THEN c
    ELSE LET r == ProcessPage(pages[page_num], page_num, c) IN
         IF r.raised /\ PageErrorAction # "continue"
         THEN r.content
         ELSE ExtractPages(pages, page_num + 1, r.content)

EmptyContent == [ text |-> << >>, images |-> << >>, image_texts |-> None ]

\* pdfplumber.open failing is logged and raised again
ExtractContent(doc) ==
    IF ~doc.opens THEN Raised("open")
    ELSE Returned(ExtractPages(doc.pages, 1, EmptyContent))

---------------------------------------------------------------------------
(* Image/OCR processor: process_images *)

OcrOutcomes == { "blank", "text", "raise" }

\* what the collaborators do in one call of process_images: whether
\* convert_from_path raises, the locations whose crop raises, and what
\* image_to_string makes of a crop of each page's bitmap
ProcEnvs(npages, nlocs) ==
    [ rasterize_raises : BOOLEAN,
      crop_raises : SUBSET (1..nlocs),
      ocr : [ 1..npages -> OcrOutcomes ] ]

\* the string image_to_string returns for a crop of the bitmap of page b
OcrString(b, outcome) ==
    IF outcome = "text" THEN << "ocr of page ", ToString(b), "\n" >>
    ELSE << " ", "\n" >>

\* f"Image text (Page {img_info['page']}):\n{ocr_text}"
ImageText(page, ocr_text) ==
    << "Image text (Page ", ToString(page), "):\n" >> \o ocr_text

\* the range computed from the whole document: first_page always 1
RasterRangeMutant(imgs) ==
    [ first_page |-> 1, last_page |-> imgs[Len(imgs)].page ]

\* first_page=images[0]['page'], last_page=images[-1]['page']
RasterRange(imgs) ==
    [ first_page |-> imgs[1].page, last_page |-> imgs[Len(imgs)].page ]

\* convert_from_path: one bitmap per page of the range, in page order;
\* a bitmap is named by the page it shows
Rasterize(range) ==
    [ k \in 1..(range.last_page - range.first_page + 1) |->
        range.first_page + k - 1 ]

\* "page_index = img_info['page'] - 1", an index from 0
PageIndex(img_info) == img_info.page - 1

RECURSIVE OcrLoop(_, _, _, _, _, _)
\* "for img_info in images": ends at the end of the list, or with raised
\* set at the first exception that leaves the loop.  Every location that
\* extract_content builds has a bbox, so "if 'bbox' in img_info" is taken.
OcrLoop(imgs, i, bitmaps, env, texts, used) ==
    IF i > Len(imgs)
    THEN [ raised |-> FALSE, image_texts |-> texts, used |-> used ]
    ELSE LET page == imgs[i].page
             page_index == PageIndex(imgs[i])
         IN
         IF page_index >= Len(bitmaps)
         THEN \* pages[page_index]: IndexError
              [ raised |-> TRUE, image_texts |-> texts,
                used |-> Append(used, [ page |-> page, bitmap |-> None ]) ]
         ELSE LET bitmap == bitmaps[page_index + 1]
                  used1 == Append(used, [ page |-> page,
                                          bitmap |-> Some(bitmap) ])
                  ocr_text == OcrString(bitmap, env.ocr[bitmap])
              IN
              IF i \in env.crop_raises
              THEN OcrLoop(imgs, i + 1, bitmaps, env, texts, used1)
              ELSE IF env.ocr[bitmap] = "raise"
              THEN [ raised |-> TRUE, image_texts |-> texts, used |-> used1 ]
              ELSE IF Strip(ocr_text) # << >>
              THEN OcrLoop(imgs, i + 1, bitmaps, env,
                           Append(texts, ImageText(page, ocr_text)), used1)
              ELSE OcrLoop(imgs, i + 1, bitmaps, env, texts, used1)

\* the outer handler raising again instead of returning
OnProcessingErrorMutant(texts) == Raised("processing")

\* "except Exception as e: log" followed by "return image_texts"
OnProcessingError(texts) == Returned(texts)

ProcessImages(imgs, env) ==
    IF imgs = << >>
    THEN [ result |-> Returned(<< >>), raster_calls |-> << >>,
           used |-> << >> ]
    ELSE LET range == RasterRange(imgs) IN
         IF env.rasterize_raises
         THEN [ result |-> OnProcessingError(<< >>),
                raster_calls |-> << range >>, used |-> << >> ]
         ELSE LET r == OcrLoop(imgs, 1, Rasterize(range), env,
                               << >>, << >>)
              IN  [ result |-> IF r.raised
                               THEN OnProcessingError(r.image_texts)
                               ELSE Returned(r.image_texts),
                    raster_calls |-> << range >>, used |-> r.used ]

---------------------------------------------------------------------------
(* The inputs *)

\* what page.extract_text() does on page n: raises, or returns None, a
\* whitespace-only string or the text of the page
TextKinds == { "raise", "none", "blank", "text" }

PageTextOf(n) == << "text of page ", ToString(n) >>

TextOutcome(n, kind) ==
    CASE kind = "raise" -> Raised("extract_text")
      [] kind = "none"  -> Returned(None)
      [] kind = "blank" -> Returned(Some(<< " ", "\n" >>))
      [] OTHER          -> Returned(Some(PageTextOf(n)))

\* page.images: each descriptor has a bbox of four numbers, has none, or
\* has one that Rect() cannot index
PageImageLists ==
    { << >>, << "bbox" >>, << "absent" >>, << "malformed" >>,
      << "bbox", "malformed" >> }

PageShapes == [ text : TextKinds, images : PageImageLists ]

PagesOf(shape) ==
    [ n \in DOMAIN shape |->
        [ extract_text |-> TextOutcome(n, shape[n].text),
          images |-> shape[n].images ] ]

Unopenable == [ opens |-> FALSE, pages |-> << >> ]

Documents(maxPages) ==
    { Unopenable } \cup
    { [ opens |-> TRUE, pages |-> PagesOf(shape) ] :
        shape \in SeqsUpTo(PageShapes, maxPages) }

\* image-location lists as extract_content builds them: in page order
LocationLists(maxPages, maxLocations) ==
    { [ i \in DOMAIN ps |-> ImageLocation(ps[i], "bbox") ] :
        ps \in { s \in SeqsUpTo(1..maxPages, maxLocations) :
                   \A i \in 1..(Len(s) - 1) : s[i] <= s[i + 1] } }

LastPage(imgs) == IF imgs = << >> THEN 0 ELSE imgs[Len(imgs)].page

PageTexts == { << "PageOneText" >>, << "PageTwoText" >>, << " ", "x" >> }
ImageTexts == { ImageText(1, << "Foo" >>), ImageText(2, << "Bar", "\n" >>) }

AssemblerInputs ==
    [ text : SeqsUpTo(PageTexts, MaxTexts),
      images : { << >> },
      image_texts : { None } \cup
                    { Some(t) : t \in SeqsUpTo(ImageTexts, MaxTexts) } ]

Suffixes == { ".pdf", ".PDF", ".Pdf", ".txt", "" }

\* str.lower() on the suffixes of the model
Lower(suffix) ==
    CASE suffix \in { ".pdf", ".PDF", ".Pdf" } -> ".pdf"
      [] OTHER -> suffix

\* main reads the whole command line; convert is handed the two paths and
\* reads no suffix
CommandLines ==
    [ entry : { "main" }, argc : { 2, 3, 4 }, exists : BOOLEAN,
      suffix : Suffixes, output_before : { None, Some(<< "old" >>) } ]
    \cup
    [ entry : { "convert" }, argc : { 3 }, exists : BOOLEAN,
      suffix : { ".pdf" }, output_before : { None, Some(<< "old" >>) } ]

---------------------------------------------------------------------------
(* The state machines *)

segmenterVars == << chars, text_blocks >>
tableVars == << table, md_table >>
processorVars == << images, ocr_env, raster_calls, used_bitmaps,
                    image_texts >>
driverVars == << argv, output_file, exit_code, stages >>

SegmenterUnused == chars = Unused /\ text_blocks = Unused
TableUnused == table = Unused /\ md_table = Unused
ProcessorUnused ==
    /\ images = Unused /\ ocr_env = Unused /\ raster_calls = Unused
    /\ used_bitmaps = Unused /\ image_texts = Unused
DriverUnused ==
    /\ argv = Unused /\ output_file = Unused /\ exit_code = Unused
    /\ stages = Unused

(* _analyze_layout on one page's characters *)
InitSegmenter ==
    /\ pc = "analyze_layout"
    /\ chars \in SeqsUpTo(Glyphs, MaxGlyphs)
    /\ text_blocks = << >>
    /\ TableUnused /\ ProcessorUnused /\ DriverUnused
    /\ pdf = Unused /\ content = Unused /\ markdown_content = Unused

RunAnalyzeLayout ==
    /\ pc = "analyze_layout"
    /\ text_blocks' = AnalyzeLayout(chars)
    /\ pc' = "done"
    /\ UNCHANGED << chars, tableVars, pdf, content, processorVars,
                    markdown_content, driverVars >>

SpecSegmenter == InitSegmenter /\ [][RunAnalyzeLayout]_vars

(* _convert_table_to_markdown on one grid *)
InitTable ==
    /\ pc = "convert_table"
    /\ table \in SeqsUpTo(SeqsUpTo(Cells, MaxCols), MaxRows)
    /\ md_table = Returned(<< >>)
    /\ SegmenterUnused /\ ProcessorUnused /\ DriverUnused
    /\ pdf = Unused /\ content = Unused /\ markdown_content = Unused

RunConvertTable ==
    /\ pc = "convert_table"
    /\ md_table' = ConvertTableToMarkdown(table)
    /\ pc' = "done"
    /\ UNCHANGED << table, segmenterVars, pdf, content, processorVars,
                    markdown_content, driverVars >>

SpecTable == InitTable /\ [][RunConvertTable]_vars

(* convert_to_markdown on one content dict *)
InitAssembler ==
    /\ pc = "convert_to_markdown"
    /\ content \in AssemblerInputs
    /\ markdown_content = << >>
    /\ SegmenterUnused /\ TableUnused /\ ProcessorUnused /\ DriverUnused
    /\ pdf = Unused

RunConvertToMarkdown ==
    /\ pc = "convert_to_markdown"
    /\ markdown_content' = ConvertToMarkdown(content)
    /\ pc' = "done"
    /\ UNCHANGED << content, segmenterVars, tableVars, pdf, processorVars,
                    driverVars >>

SpecAssembler == InitAssembler /\ [][RunConvertToMarkdown]_vars

(* extract_content on one document *)
InitExtractor ==
    /\ pc = "extract_content"
    /\ pdf \in Documents(MaxPages)
    /\ content = EmptyContent
    /\ SegmenterUnused /\ TableUnused /\ ProcessorUnused /\ DriverUnused
    /\ markdown_content = Unused

RunExtractContent ==
    /\ pc = "extract_content"
    /\ LET r == ExtractContent(pdf) IN
       IF r.raised
       THEN pc' = "raised" /\ UNCHANGED content
       ELSE pc' = "done" /\ content' = r.value
    /\ UNCHANGED << pdf, segmenterVars, tableVars, processorVars,
                    markdown_content, driverVars >>

SpecExtractor == InitExtractor /\ [][RunExtractContent]_vars

(* process_images on one image-location list *)
InitProcessor ==
    /\ pc = "process_images"
    /\ images \in LocationLists(MaxPages, MaxLocations)
    /\ ocr_env \in ProcEnvs(LastPage(images), Len(images))
    /\ raster_calls = << >>
    /\ used_bitmaps = << >>
    /\ image_texts = << >>
    /\ SegmenterUnused /\ TableUnused /\ DriverUnused
    /\ pdf = Unused /\ content = Unused /\ markdown_content = Unused

RunProcessImages ==
    /\ pc = "process_images"
    /\ LET r == ProcessImages(images, ocr_env) IN
       /\ raster_calls' = r.raster_calls
       /\ used_bitmaps' = r.used
       /\ IF r.result.raised
          THEN pc' = "raised" /\ UNCHANGED image_texts
          ELSE pc' = "done" /\ image_texts' = r.result.value
    /\ UNCHANGED << images, ocr_env, segmenterVars, tableVars, pdf, content,
                    markdown_content, driverVars >>

SpecProcessor == InitProcessor /\ [][RunProcessImages]_vars

---------------------------------------------------------------------------
(* The drivers: AdvancedPDFMarkdownConverter.convert and main *)

\* the document pdfplumber.open finds behind the input path
DocumentsAt(cmd) ==
    IF cmd.exists THEN Documents(PipelinePages) ELSE { Unopenable }

Exit(code) == pc' = "exited" /\ exit_code' = Some(code)

\* the check left out
InputMissingMutant(cmd) == FALSE

\* "if not input_pdf.exists()"
InputMissing(cmd) == ~cmd.exists

\* "if not input_pdf.suffix.lower() == '.pdf'"
NotPdfSuffix(cmd) == Lower(cmd.suffix) # ".pdf"

InitDriver ==
    /\ argv \in CommandLines
    /\ pc = IF argv.entry = "main" THEN "main_args" ELSE "convert_extract"
    /\ output_file = argv.output_before
    /\ exit_code = None
    /\ stages = << >>
    /\ content = EmptyContent
    /\ markdown_content = << >>
    /\ ocr_env = None
    /\ raster_calls = << >>
    /\ used_bitmaps = << >>
    /\ images = Unused /\ image_texts = Unused /\ pdf = Unused
    /\ SegmenterUnused /\ TableUnused

driverFixed == << argv, segmenterVars, tableVars, pdf, images, image_texts >>
processingVars == << ocr_env, raster_calls, used_bitmaps >>

\* "if len(sys.argv) != 3: sys.exit(1)"
MainCheckArgs ==
    /\ pc = "main_args"
    /\ IF argv.argc # 3
       THEN Exit(1)
       ELSE pc' = "main_exists" /\ UNCHANGED exit_code
    /\ UNCHANGED << driverFixed, processingVars, content, markdown_content,
                    output_file, stages >>

MainCheckExists ==
    /\ pc = "main_exists"
    /\ IF InputMissing(argv)
       THEN Exit(1)
       ELSE pc' = "main_suffix" /\ UNCHANGED exit_code
    /\ UNCHANGED << driverFixed, processingVars, content, markdown_content,
                    output_file, stages >>

MainCheckSuffix ==
    /\ pc = "main_suffix"
    /\ IF NotPdfSuffix(argv)
       THEN Exit(1)
       ELSE pc' = "main_extract" /\ UNCHANGED exit_code
    /\ UNCHANGED << driverFixed, processingVars, content, markdown_content,
                    output_file, stages >>

\* "content = converter.extract_content(input_pdf)"; an exception goes to
\* "except Exception: sys.exit(1)"
MainExtract ==
    /\ pc = "main_extract"
    /\ stages' = Append(stages, "extract_content")
    /\ \E doc \in DocumentsAt(argv) :
         LET r == ExtractContent(doc) IN
         IF r.raised
         THEN Exit(1) /\ UNCHANGED content
         ELSE pc' = "main_assemble" /\ content' = r.value
                 /\ UNCHANGED exit_code
    /\ UNCHANGED << driverFixed, processingVars, markdown_content,
                    output_file >>

\* "converted_md = converter.convert_to_markdown(content)"
MainAssemble ==
    /\ pc = "main_assemble"
    /\ stages' = Append(stages, "convert_to_markdown")
    /\ markdown_content' = ConvertToMarkdown(content)
    /\ pc' = "main_write"
    /\ UNCHANGED << driverFixed, processingVars, content, output_file,
                    exit_code >>

\* "with output_md.open('w') as f: f.write(converted_md); sys.exit(0)";
\* open may raise, which ends in sys.exit(1)
MainWrite ==
    /\ pc = "main_write"
    /\ \E opened \in BOOLEAN :
         IF opened
         THEN /\ output_file' = Some(markdown_content)
              /\ stages' = Append(stages, "write")
              /\ Exit(0)
         ELSE Exit(1) /\ UNCHANGED << output_file, stages >>
    /\ UNCHANGED << driverFixed, processingVars, content, markdown_content >>

\* "content = self.extract_content(input_pdf)"; convert raises again what
\* it catches
ConvertExtract ==
    /\ pc = "convert_extract"
    /\ stages' = Append(stages, "extract_content")
    /\ \E doc \in DocumentsAt(argv) :
         LET r == ExtractContent(doc) IN
         IF r.raised
         THEN pc' = "raised" /\ UNCHANGED content
         ELSE pc' = "convert_process" /\ content' = r.value
    /\ UNCHANGED << driverFixed, processingVars, markdown_content,
                    output_file, exit_code >>

\* "if content['images']: content['image_texts'] = self.process_images(..)"
ConvertProcess ==
    /\ pc = "convert_process"
    /\ IF content.images = << >>
       THEN /\ pc' = "convert_assemble"
            /\ UNCHANGED << content, processingVars, stages >>
       ELSE \E env \in ProcEnvs(LastPage(content.images),
                                  Len(content.images)) :
              LET r == ProcessImages(content.images, env) IN
              /\ ocr_env' = Some(env)
              /\ raster_calls' = r.raster_calls
              /\ used_bitmaps' = r.used
              /\ stages' = Append(stages, "process_images")
              /\ IF r.result.raised
                 THEN pc' = "raised" /\ UNCHANGED content
                 ELSE /\ pc' = "convert_assemble"
                      /\ content' = [ content EXCEPT
                                        !.image_texts = Some(r.result.value) ]
    /\ UNCHANGED << driverFixed, markdown_content, output_file, exit_code >>

\* "markdown_text = self.convert_to_markdown(content)"
ConvertAssemble ==
    /\ pc = "convert_assemble"
    /\ stages' = Append(stages, "convert_to_markdown")
    /\ markdown_content' = ConvertToMarkdown(content)
    /\ pc' = "convert_write"
    /\ UNCHANGED << driverFixed, processingVars, content, output_file,
                    exit_code >>

\* "with output_md.open('w', encoding='utf-8') as f: f.write(..)"
ConvertWrite ==
    /\ pc = "convert_write"
    /\ \E opened \in BOOLEAN :
         IF opened
         THEN /\ output_file' = Some(markdown_content)
              /\ stages' = Append(stages, "write")
              /\ pc' = "returned"
         ELSE pc' = "raised" /\ UNCHANGED << output_file, stages >>
    /\ UNCHANGED << driverFixed, processingVars, content, markdown_content,
                    exit_code >>

Next ==
    \/ MainCheckArgs
    \/ MainCheckExists
    \/ MainCheckSuffix
    \/ MainExtract
    \/ MainAssemble
    \/ MainWrite
    \/ ConvertExtract
    \/ ConvertProcess
    \/ ConvertAssemble
    \/ ConvertWrite

Spec == InitDriver /\ [][Next]_vars

---------------------------------------------------------------------------
(* Claims about the layout segmenter (SpecSegmenter) *)

AllSized == \A i \in DOMAIN chars : chars[i].size # None

\* the positions where a maximal run of one size begins
RunStarts ==
    { i \in DOMAIN chars : i = 1 \/ chars[i].size # chars[i - 1].size }

\* where the k-th run begins and ends
RunStart(k) ==
    CHOOSE i \in RunStarts : Cardinality({ j \in RunStarts : j < i }) = k - 1
RunEnd(k) ==
    IF k = Cardinality(RunStarts) THEN Len(chars) ELSE RunStart(k + 1) - 1

RunText(k) ==
    Flatten([ i \in 1..(RunEnd(k) - RunStart(k) + 1) |->
                chars[RunStart(k) + i - 1].text ])

\* C7: on glyphs that all carry a size, the segmenter returns, in reading
\* order, exactly one block per maximal run of consecutive glyphs of one
\* size; the block holds the run's size and the concatenation of the run's
\* glyph texts.  A size that comes back after another size opens a new
\* block, and glyphs of one single size give one block with the whole text.
C7_OneBlockPerRun ==
    (pc = "done" /\ AllSized) =>
        /\ Len(text_blocks) = Cardinality(RunStarts)
        /\ \A k \in DOMAIN text_blocks :
              /\ text_blocks[k].size = chars[RunStart(k)].size
              /\ text_blocks[k].text = RunText(k)
        /\ (Cardinality({ chars[i].size : i \in DOMAIN chars }) = 1
               => text_blocks =
                    << [ text |-> Flatten([ i \in DOMAIN chars |->
                                             chars[i].text ]),
                         size |-> chars[1].size ] >>)

\* C7 witness: sizes 10,10,12,12,10 give three blocks, the last one of the
\* size of the first
C7_Witness ==
    /\ pc = "done"
    /\ [ i \in DOMAIN chars |-> chars[i].size ]
         = << Some(10), Some(10), Some(12), Some(12), Some(10) >>
    /\ [ i \in DOMAIN chars |-> chars[i].text ]
         = << <<"a">>, <<"b">>, <<"a">>, <<"b">>, <<"a">> >>
    /\ text_blocks = << [ text |-> << "a", "b" >>, size |-> Some(10) ],
                        [ text |-> << "a", "b" >>, size |-> Some(12) ],
                        [ text |-> << "a" >>, size |-> Some(10) ] >>

---------------------------------------------------------------------------
(* Claims about the markdown assembler (SpecAssembler) *)

Separated(strings) ==
    Flatten([ i \in DOMAIN strings |-> strings[i] \o << BlankLine >> ])

ImageTextsGiven ==
    content.image_texts # None /\ Len(content.image_texts[1]) > 0

Occurrences(token, s) == Cardinality({ i \in DOMAIN s : s[i] = token })

\* C8: the assembler returns every page text followed by a blank line, in
\* page order; then, if and only if image texts are present and not empty,
\* one "## Extracted Image Texts" header and every image text in list
\* order, each followed by a blank line, and nothing after the last one.
C8_AssemblerOutput ==
    pc = "done" =>
        /\ markdown_content =
              Separated(content.text)
              \o (IF ImageTextsGiven
                  THEN << ImageHeader >> \o Separated(content.image_texts[1])
                  ELSE << >>)
        /\ Occurrences(ImageHeader, markdown_content)
              = (IF ImageTextsGiven THEN 1 ELSE 0)

\* C8 witness: two page texts and one image text
C8_Witness ==
    /\ pc = "done"
    /\ content.text = << << "PageOneText" >>, << "PageTwoText" >> >>
    /\ content.image_texts = Some(<< ImageText(1, << "Foo" >>) >>)
    /\ markdown_content =
         << "PageOneText", "\n\n", "PageTwoText", "\n\n",
            "## Extracted Image Texts\n\n",
            "Image text (Page ", "1", "):\n", "Foo", "\n\n" >>

---------------------------------------------------------------------------
(* Claims about the table formatter (SpecTable) *)

\* the line "| c1 | c2 | ... |" of the texts of a row's cells
RowLine(cells) ==
    IF cells = << >> THEN << "| ", " |\n" >>
    ELSE [ p \in 1..(2 * Len(cells) + 1) |->
             IF p = 1 THEN "| "
             ELSE IF p = 2 * Len(cells) + 1 THEN " |\n"
             ELSE IF p % 2 = 0 THEN cells[p \div 2]
             ELSE " | " ]

CellTexts(row) == [ j \in DOMAIN row |-> row[j].repr ]

ExpectedTable ==
    IF table = << >> THEN << >>
    ELSE RowLine(CellTexts(table[1]))
         \o RowLine([ j \in DOMAIN table[1] |-> "---" ])
         \o Flatten([ r \in 1..(Len(table) - 1) |->
                        RowLine(CellTexts(table[r + 1])) ])

\* C10: the table formatter maps the empty grid to the empty string and
\* any other grid to its header line, one separator line with as many
\* "---" cells as the header has columns, and one line per further row in
\* row order, each cell as its text.
C10_TableFormat ==
    pc = "done" => (~md_table.raised /\ md_table.value = ExpectedTable)

\* the grids on which C10 does hold: those whose header cells are strings
C10_OnTextHeaders ==
    (pc = "done" /\ table # << >>
        /\ \A j \in DOMAIN table[1] : table[1][j].kind = "str")
    => (~md_table.raised /\ md_table.value = ExpectedTable)

---------------------------------------------------------------------------
(* Claims about the content extractor (SpecExtractor) *)

\* the members of a set of numbers, in increasing order
Increasing(S) ==
    CHOOSE f \in [ 1..Cardinality(S) -> S ] :
        \A i, j \in 1..Cardinality(S) : i < j => f[i] < f[j]

PageNumbers == DOMAIN pdf.pages

TextThrows(n) == pdf.pages[n].extract_text.raised

\* the page's try block is left by an exception, in extract_text or while
\* its images are identified
PageThrows(n) ==
    TextThrows(n) \/ "malformed" \in Range(pdf.pages[n].images)

\* the page has a text entry to give: a text that is not blank
GivesText(n) ==
    ~TextThrows(n) /\ pdf.pages[n].extract_text.value = Some(PageTextOf(n))

TextsOfPages(S) == [ k \in 1..Cardinality(S) |-> PageTextOf(Increasing(S)[k]) ]

\* C4 as claimed: on a document that opens, extract_content returns and
\* the text list holds exactly the text entries of the pages whose
\* processing did not throw, in page order.
C4_TextOfNonFailingPages ==
    (pc # "extract_content" /\ pdf.opens) =>
        /\ pc = "done"
        /\ content.text =
             TextsOfPages({ n \in PageNumbers : GivesText(n) /\ ~PageThrows(n) })

\* C4 as amended: on a document that opens, extract_content returns and
\* the text list holds exactly the text entries of the pages whose text
\* extraction did not throw, in page order, whatever pages throw before or
\* after them; a page that throws only while its images are identified
\* keeps its text entry.
C4_TextOfPagesWhoseTextExtracted ==
    (pc # "extract_content" /\ pdf.opens) =>
        /\ pc = "done"
        /\ content.text = TextsOfPages({ n \in PageNumbers : GivesText(n) })

\* C4 witness: page 2 of 3 throws in extract_text, pages 1 and 3 are kept
C4_Witness ==
    /\ pc = "done"
    /\ Len(pdf.pages) = 3
    /\ TextThrows(2) /\ GivesText(1) /\ GivesText(3)
    /\ content.text = << PageTextOf(1), PageTextOf(3) >>

---------------------------------------------------------------------------
(* Claims about the image/OCR processor (SpecProcessor) *)

LocationPages == { images[i].page : i \in DOMAIN images }

FirstReferenced == CHOOSE p \in LocationPages : \A q \in LocationPages : p <= q
LastReferenced == CHOOSE p \in LocationPages : \A q \in LocationPages : q <= p

\* C2: every location reached by the loop is cropped from the bitmap of
\* its own page, whatever page the rasterized range starts at.
C2_OwnPageBitmap ==
    pc # "process_images" =>
        \A k \in DOMAIN used_bitmaps :
            used_bitmaps[k].bitmap = Some(used_bitmaps[k].page)

\* C3: the rasterizer is called once, with the inclusive range from the
\* first to the last page the locations refer to; on the empty list it is
\* not called and the result is empty.
C3_RasterRange ==
    pc # "process_images" =>
        IF images = << >>
        THEN pc = "done" /\ raster_calls = << >> /\ image_texts = << >>
        ELSE raster_calls = << [ first_page |-> FirstReferenced,
                                 last_page |-> LastReferenced ] >>

\* C3 witness: the locations leave out the first and the last page of the
\* pages the model has, and so does the range
C3_Witness ==
    /\ pc = "done"
    /\ images # << >>
    /\ Len(raster_calls) = 1
    /\ raster_calls[1].first_page > 1
    /\ raster_calls[1].last_page < MaxPages

\* the locations that give an entry: the crop succeeds and OCR of the
\* location's own page gives text
GivesImageText(i) ==
    i \notin ocr_env.crop_raises /\ ocr_env.ocr[images[i].page] = "text"

ExpectedImageTexts ==
    LET S == { i \in DOMAIN images : GivesImageText(i) } IN
    [ k \in 1..Cardinality(S) |->
        ImageText(images[Increasing(S)[k]].page,
                  OcrString(images[Increasing(S)[k]].page, "text")) ]

\* C5: when rasterization and OCR do not raise, a crop that fails skips
\* its location alone: the result holds, in encounter order and tagged
\* with the page, one entry per location whose crop succeeds and whose OCR
\* text is not blank, the locations after the failed one included.
C5_CropFailureSkipsOne ==
    ( /\ pc # "process_images"
      /\ ocr_env.crop_raises # {}
      /\ ~ocr_env.rasterize_raises
      /\ \A p \in DOMAIN ocr_env.ocr : ocr_env.ocr[p] # "raise" )
    => (pc = "done" /\ image_texts = ExpectedImageTexts)

---------------------------------------------------------------------------
(* Claims about the drivers (Spec) *)

IsPrefix(s, t) == Len(s) <= Len(t) /\ s = SubSeq(t, 1, Len(s))

\* C1: in convert and in main alike the stages run in the order
\* extractor, processor, assembler, write: when extract_content returned
\* image locations, process_images has run and its result is stored as
\* image_texts before convert_to_markdown is called.
C1_StageOrder ==
    /\ IsPrefix(stages,
                IF content.images # << >>
                THEN << "extract_content", "process_images",
                        "convert_to_markdown", "write" >>
                ELSE << "extract_content", "convert_to_markdown", "write" >>)
    /\ ("convert_to_markdown" \in Range(stages) /\ content.images # << >>)
         => content.image_texts # None

RasterizationFailed == ocr_env # None /\ ocr_env[1].rasterize_raises

\* C6: when the rasterizer raises in process_images, convert stores the
\* empty list as image_texts and goes on to the assembler; it fails only
\* if the output file cannot be opened, and otherwise writes the page
\* texts alone.
C6_RasterFailureNotPropagated ==
    (argv.entry = "convert" /\ RasterizationFailed) =>
        /\ content.image_texts = Some(<< >>)
        /\ pc \in { "convert_assemble", "convert_write", "returned", "raised" }
        /\ pc = "raised" => "convert_to_markdown" \in Range(stages)
        /\ pc = "returned" => output_file = Some(Separated(content.text))

\* C6 witness: convert has returned after a failed rasterization
C6_Witness ==
    /\ argv.entry = "convert"
    /\ RasterizationFailed
    /\ pc = "returned"
    /\ content.text # << >>
    /\ output_file = Some(Separated(content.text))

InvalidInput ==
    ~argv.exists \/ argv.suffix \notin { ".pdf", ".PDF", ".Pdf" }

\* C9: main, given an input path that does not exist or has no .pdf
\* suffix (in any case of the letters), never calls extract_content,
\* leaves the output file as it was, can always take its next check until
\* it has exited, and exits with 1; and it exits with 0 only after the
\* output file was written.
C9_ValidationFirst ==
    argv.entry = "main" =>
        /\ InvalidInput =>
              /\ stages = << >>
              /\ output_file = argv.output_before
              /\ pc \in { "main_args", "main_exists", "main_suffix", "exited" }
              /\ pc # "exited" => ENABLED Next
              /\ pc = "exited" => exit_code = Some(1)
        /\ exit_code = Some(0) =>
              /\ "write" \in Range(stages)
              /\ output_file = Some(markdown_content)

\* C9 witness: an existing file without the suffix has ended in exit 1
\* with nothing extracted
C9_Witness ==
    /\ argv.entry = "main"
    /\ argv.argc = 3 /\ argv.exists /\ argv.suffix = ".txt"
    /\ pc = "exited" /\ exit_code = Some(1)
    /\ stages = << >>

===========================================================================
